---- MODULE Spec2Model ----
(***************************************************************************)
(* Model of agentkit-aws-pulumi: the fluent builders (agentcore/builder.go) *)
(* and the resource translator NewAgentCoreStack (agentcore/stack.go).      *)
(*                                                                          *)
(* The provisioning engine is the environment: it records every            *)
(* resource-creation request and every export, and may fail any request.   *)
(* Go pointers are modelled as sequences of length 0 (nil) or 1; Go maps   *)
(* shared by reference are cells of a heap (envHeap) or the builder's own  *)
(* Tags field; CIDR blocks are tuples <<o1, o2, o3, o4, prefix>>.          *)
(***************************************************************************)
EXTENDS Integers, Sequences, FiniteSets, TLC

VARIABLES
    b,          \* StackBuilder.config (builder.go:10-12)
    ab,         \* AgentBuilder.config (builder.go:215-217)
    envHeap,    \* the Environment map of the AgentBuilder's config
    pc,         \* position of the running NewAgentCoreStack, or its outcome
    stack,      \* the AgentCoreStack under construction (stack.go:25-55)
    tags,       \* the local tags map of NewAgentCoreStack (stack.go:71-75)
    reqs,       \* resource-creation requests received by the engine, in order
    exports,    \* ctx.Export calls received by the engine, in order
    ret,        \* what the last fallible operation (Build, NewStackFromFile)
                \* returned: stack handle and error
    builds,     \* number of entry-point calls (Build and its variants) so far
    calls,      \* number of builder calls counted against MaxCalls
    snap,       \* the last value returned by AgentBuilder.Build / Config
    asked,      \* history: the latest WithBedrockModels call and whether a
                \* later WithIAM / WithExistingRole replaced the IAM config
    runs,       \* history: the entry-point calls so far, each with the function
                \* called and the configuration it handed to NewAgentCoreStack
    panic       \* the value the last Must variant panicked with, <<>> if none

vars ==
    <<b, ab, envHeap, pc, stack, tags, reqs, exports, ret, builds, calls, snap, asked,
      runs, panic>>

-----------------------------------------------------------------------------
(* Bounds of the model *)

MaxAgents == 2    \* agents a program adds with WithSimpleAgent / WithDefaultAgent
MaxCalls == 3     \* calls made by a program that uses the AgentBuilder
MaxBuilds == 2    \* entry-point calls of a program that goes on after the first

-----------------------------------------------------------------------------
(* Input domains *)

Nil == <<>>
Ptr(x) == <<x>>
IsNil(p) == Len(p) = 0
Deref(p) == p[1]

StackNames == {"", "s1"}
AgentNames == {"a", "b"}
EnvKeys == {"LOG_LEVEL"}
EnvValues == {"info", "debug"}

EmptyMap == [k \in {} |-> ""]
MapPut(m, k, v) == [x \in (DOMAIN m) \cup {k} |-> IF x = k THEN v ELSE m[x]]

(* pulumi.String(v), pulumi.Sprintf("%s" + suffix, stackName), and the output
   of a resource the engine has been asked for, as distinguishable values *)
PulumiString(v) == <<v>>
Sprintf(stackName, suffix) == <<stackName, suffix>>
OutputOf(attr, name) == <<attr, "of", name>>
Unset == <<>>

CidrStd == <<10, 0, 0, 0, 16>>
CidrAlt == <<192, 168, 0, 0, 16>>
CidrBad == <<256, 0, 0, 0, 16>>

-----------------------------------------------------------------------------
(* iac configuration model: defaults and validation *)

DefaultAgentConfig(name) ==
    [Name |-> name, MemoryMB |-> 512, TimeoutSeconds |-> 300,
     IsDefault |-> FALSE, SecretsARNs |-> <<>>, Environment |-> 0]

DefaultVPCConfig ==
    [CreateVPC |-> TRUE, VPCCidr |-> CidrStd, MaxAZs |-> 2,
     VPCID |-> "", SubnetIDs |-> <<>>, EnableVPCEndpoints |-> TRUE]

DefaultObservabilityConfig ==
    [Provider |-> "cloudwatch", APIKeySecretARN |-> "",
     EnableCloudWatchLogs |-> TRUE, LogRetentionDays |-> 30]

DefaultIAMConfig ==
    [RoleARN |-> "", EnableBedrockAccess |-> TRUE, BedrockModelIDs |-> <<>>]

ValidMemoryValues == {512, 1024, 2048, 4096}

ApplyAgentDefaults(a) ==
    [a EXCEPT !.MemoryMB = IF @ = 0 THEN 512 ELSE @,
              !.TimeoutSeconds = IF @ = 0 THEN 30 ELSE @]

ApplyDefaults(c) ==
    [c EXCEPT !.VPC = IF IsNil(@) THEN Ptr(DefaultVPCConfig) ELSE @,
              !.Observability = IF IsNil(@) THEN Ptr(DefaultObservabilityConfig) ELSE @,
              !.IAM = IF IsNil(@) THEN Ptr(DefaultIAMConfig) ELSE @,
              !.Agents = [i \in DOMAIN @ |-> ApplyAgentDefaults(@[i])]]

ValidCIDR(c) ==
    /\ Len(c) = 5
    /\ \A i \in 1..4 : c[i] \in 0..255
    /\ c[5] \in 0..32

ValidateAgent(a) ==
    IF a.Name = "" THEN "agent name required"
    ELSE IF a.MemoryMB \notin ValidMemoryValues THEN "invalid memory"
    ELSE IF a.TimeoutSeconds <= 0 THEN "invalid timeout"
    ELSE ""

ValidateVPC(v) ==
    IF v.CreateVPC
    THEN IF ~ValidCIDR(v.VPCCidr) THEN "invalid vpcCidr"
         ELSE IF v.MaxAZs < 1 THEN "invalid maxAZs"
         ELSE ""
    ELSE IF v.VPCID = "" THEN "vpcId required"
         ELSE IF Len(v.SubnetIDs) = 0 THEN "subnetIds required"
         ELSE ""

ValidateObservability(o) ==
    IF o.Provider \in {"opik", "langfuse"} /\ o.APIKeySecretARN = ""
    THEN "apiKeySecretRef required"
    ELSE ""

ValidateSecrets(s) ==
    IF s.CreateSecrets /\ DOMAIN s.SecretValues = {}
    THEN "secretValues required"
    ELSE ""

FirstError(errs) ==
    LET bad == {i \in DOMAIN errs : errs[i] # ""}
    IN  IF bad = {} THEN ""
        ELSE errs[CHOOSE i \in bad : \A j \in bad : i <= j]

(* "" when the configuration is valid, otherwise the first violation *)
Validate(c) ==
    LET n == Len(c.Agents)
        agentErrs == [i \in 1..n |-> ValidateAgent(c.Agents[i])]
    IN  IF c.StackName = "" THEN "stackName required"
        ELSE IF n = 0 THEN "at least one agent required"
        ELSE IF FirstError(agentErrs) # "" THEN FirstError(agentErrs)
        ELSE IF \E i, j \in 1..n : i < j /\ c.Agents[i].Name = c.Agents[j].Name
             THEN "duplicate agent name"
        ELSE IF Cardinality({i \in 1..n : c.Agents[i].IsDefault}) > 1
             THEN "multiple default agents"
        ELSE IF ~IsNil(c.VPC) /\ ValidateVPC(Deref(c.VPC)) # ""
             THEN ValidateVPC(Deref(c.VPC))
        ELSE IF ~IsNil(c.Observability) /\ ValidateObservability(Deref(c.Observability)) # ""
             THEN ValidateObservability(Deref(c.Observability))
        ELSE IF ~IsNil(c.Secrets) /\ ValidateSecrets(Deref(c.Secrets)) # ""
             THEN ValidateSecrets(Deref(c.Secrets))
        ELSE ""

-----------------------------------------------------------------------------
(* Inputs the program passes to the builders *)

MemoryInputs == {0, 999}
TimeoutInputs == {0, -1}
SecretARNs == {"arn:secret"}
ExistingVPCInputs ==
    {<<"vpc-1", <<"subnet-1">> >>, <<"", <<"subnet-1">> >>, <<"vpc-1", <<>> >>}
NewVPCInputs == {<<CidrStd, 2>>, <<CidrAlt, 2>>, <<CidrBad, 2>>, <<CidrStd, 0>>}
APIKeyInputs == {"", "arn:key"}
RetentionInputs == {0, 7}
ObservabilityInputs ==
    {[Provider |-> "none", APIKeySecretARN |-> "",
      EnableCloudWatchLogs |-> FALSE, LogRetentionDays |-> 0]}
IAMInputs ==
    {[RoleARN |-> "", EnableBedrockAccess |-> FALSE, BedrockModelIDs |-> <<>>],
     [RoleARN |-> "", EnableBedrockAccess |-> TRUE, BedrockModelIDs |-> <<"m2">>]}
RoleARNs == {"arn:role"}
ModelInputs == {<<>>, <<"m1">>, <<"m1", "m2">>}
SecretValueInputs == {EmptyMap, [k \in {"API_KEY"} |-> "v"]}
TagInputs == {<<"Environment", "prod">>, <<"ManagedBy", "user">>, <<"Name", "user">>}
TagsInputs == {[k \in {"Environment", "Team"} |-> "ai"]}

(* Configuration documents on disk.  config.yaml is the README's example: two
   agents, a new VPC, provider opik with a project and no apiKeySecretRef. *)
FilePaths == {"missing.yaml", "config.yaml", "stack.json"}

ReadmeDocument ==
    [StackName |-> "my-agents",
     Agents |-> <<[Name |-> "research", MemoryMB |-> 512, TimeoutSeconds |-> 30,
                   IsDefault |-> FALSE, SecretsARNs |-> <<>>, Environment |-> 0],
                  [Name |-> "orchestration", MemoryMB |-> 1024, TimeoutSeconds |-> 300,
                   IsDefault |-> TRUE, SecretsARNs |-> <<>>, Environment |-> 0]>>,
     VPC |-> Ptr([CreateVPC |-> TRUE, VPCCidr |-> CidrStd, MaxAZs |-> 2,
                  VPCID |-> "", SubnetIDs |-> <<>>, EnableVPCEndpoints |-> FALSE]),
     Secrets |-> Nil,
     Observability |-> Ptr([Provider |-> "opik", APIKeySecretARN |-> "",
                            EnableCloudWatchLogs |-> TRUE, LogRetentionDays |-> 0]),
     IAM |-> Nil,
     Tags |-> [k \in {"Environment"} |-> "production"]]

MinimalDocument ==
    [StackName |-> "s1",
     Agents |-> <<[Name |-> "a", MemoryMB |-> 0, TimeoutSeconds |-> 0,
                   IsDefault |-> FALSE, SecretsARNs |-> <<>>, Environment |-> 0]>>,
     VPC |-> Nil, Secrets |-> Nil, Observability |-> Nil, IAM |-> Nil,
     Tags |-> EmptyMap]

(* iac.LoadStackConfigFromFile: the parsed document with the defaults applied,
   or an error; it does not validate *)
LoadStackConfigFromFile(configPath) ==
    IF configPath = "config.yaml"
    THEN [config |-> Ptr(ApplyDefaults(ReadmeDocument)), err |-> ""]
    ELSE IF configPath = "stack.json"
    THEN [config |-> Ptr(ApplyDefaults(MinimalDocument)), err |-> ""]
    ELSE [config |-> Nil, err |-> "no such file"]

-----------------------------------------------------------------------------
(* Builder calls are made before the terminal Build call.  No builder call
   touches the engine or the translator's state. *)

NoRun == UNCHANGED <<pc, stack, tags, reqs, exports, ret, builds, runs, panic>>

(* A StackBuilder call that leaves the configuration newB *)
StackCall(newB) ==
    /\ pc = "idle"
    /\ b' = newB
    /\ NoRun
    /\ UNCHANGED <<ab, envHeap, snap, calls>>

NoIAMCall == UNCHANGED asked
ReplacesIAM == asked' = [asked EXCEPT !.live = FALSE]

(* The same, in a program whose calls are counted *)
CanCall == pc = "idle" /\ calls < MaxCalls

CountedStackCall(newB) ==
    /\ CanCall
    /\ b' = newB
    /\ calls' = calls + 1
    /\ NoRun
    /\ UNCHANGED <<ab, envHeap, snap, asked>>

(* An AgentBuilder call that leaves the configuration newAb and the
   Environment map newEnv *)
AgentCall(newAb, newEnv) ==
    /\ CanCall
    /\ ab' = newAb
    /\ envHeap' = newEnv
    /\ calls' = calls + 1
    /\ NoRun
    /\ UNCHANGED <<b, snap, asked>>

-----------------------------------------------------------------------------
(* AgentBuilder *)

NewAgentBuilder(name) == [DefaultAgentConfig(name) EXCEPT !.Environment = 1]

AgentWithMemory == \E m \in MemoryInputs : AgentCall([ab EXCEPT !.MemoryMB = m], envHeap)

AgentWithTimeout ==
    \E t \in TimeoutInputs : AgentCall([ab EXCEPT !.TimeoutSeconds = t], envHeap)

MapMerge(env, m) ==
    [k \in (DOMAIN env) \cup (DOMAIN m) |-> IF k \in DOMAIN m THEN m[k] ELSE env[k]]

AgentWithEnvironment ==
    \E v \in EnvValues :
        AgentCall(ab, MapMerge(envHeap, [k \in EnvKeys |-> v]))

AgentWithEnvVar ==
    \E k \in EnvKeys, v \in EnvValues : AgentCall(ab, MapPut(envHeap, k, v))

AgentWithSecrets ==
    \E a \in SecretARNs :
        AgentCall([ab EXCEPT !.SecretsARNs = Append(@, a)], envHeap)

AgentAsDefault == AgentCall([ab EXCEPT !.IsDefault = TRUE], envHeap)

(* The value of an AgentConfig as a reader sees it: its Environment map is
   read through the reference it holds *)
DeepAgent(a) == [a EXCEPT !.Environment = IF @ = 0 THEN EmptyMap ELSE envHeap]

AgentBuilderBuild == ab

AgentBuild ==
    /\ CanCall
    /\ snap' = [kind |-> "agent", cfg |-> AgentBuilderBuild,
                val |-> DeepAgent(AgentBuilderBuild)]
    /\ calls' = calls + 1
    /\ NoRun
    /\ UNCHANGED <<b, ab, envHeap, asked>>

-----------------------------------------------------------------------------
(* StackBuilder *)

NewStackBuilder(stackName) ==
    [StackName |-> stackName, Agents |-> <<>>, VPC |-> Nil, Secrets |-> Nil,
     Observability |-> Nil, IAM |-> Nil, Tags |-> EmptyMap]

WithAgent == CountedStackCall([b EXCEPT !.Agents = Append(@, AgentBuilderBuild)])

DefaultMarked(name) == [DefaultAgentConfig(name) EXCEPT !.IsDefault = TRUE]

WithAgents ==
    \E x, y \in {AgentBuilderBuild, DefaultMarked("b")} :
        CountedStackCall([b EXCEPT !.Agents = @ \o <<x, y>>])

WithSimpleAgent ==
    \E n \in AgentNames \cup {""} :
        /\ Len(b.Agents) < MaxAgents
        /\ StackCall([b EXCEPT !.Agents = Append(@, DefaultAgentConfig(n))])
        /\ NoIAMCall

WithDefaultAgent ==
    \E n \in AgentNames :
        /\ Len(b.Agents) < MaxAgents
        /\ StackCall([b EXCEPT !.Agents = Append(@, DefaultMarked(n))])
        /\ NoIAMCall

WithExistingVPC ==
    \E in \in ExistingVPCInputs :
        /\ StackCall([b EXCEPT !.VPC = Ptr(
               [CreateVPC |-> FALSE, VPCCidr |-> <<>>, MaxAZs |-> 0,
                VPCID |-> in[1], SubnetIDs |-> in[2], EnableVPCEndpoints |-> FALSE])])
        /\ NoIAMCall

WithNewVPC ==
    \E in \in NewVPCInputs :
        /\ StackCall([b EXCEPT !.VPC = Ptr(
               [CreateVPC |-> TRUE, VPCCidr |-> in[1], MaxAZs |-> in[2],
                VPCID |-> "", SubnetIDs |-> <<>>, EnableVPCEndpoints |-> TRUE])])
        /\ NoIAMCall

WithSecretValues ==
    \E values \in SecretValueInputs :
        CountedStackCall([b EXCEPT !.Secrets =
            Ptr([CreateSecrets |-> TRUE, SecretValues |-> values])])

WithObservability ==
    \E config \in ObservabilityInputs :
        /\ StackCall([b EXCEPT !.Observability = Ptr(config)])
        /\ NoIAMCall

WithOpik ==
    \E key \in APIKeyInputs :
        /\ StackCall([b EXCEPT !.Observability = Ptr(
               [Provider |-> "opik", APIKeySecretARN |-> key,
                EnableCloudWatchLogs |-> TRUE, LogRetentionDays |-> 30])])
        /\ NoIAMCall

WithLangfuse ==
    \E key \in APIKeyInputs :
        /\ StackCall([b EXCEPT !.Observability = Ptr(
               [Provider |-> "langfuse", APIKeySecretARN |-> key,
                EnableCloudWatchLogs |-> TRUE, LogRetentionDays |-> 30])])
        /\ NoIAMCall

WithCloudWatchOnly ==
    \E retentionDays \in RetentionInputs :
        /\ StackCall([b EXCEPT !.Observability = Ptr(
               [Provider |-> "cloudwatch", APIKeySecretARN |-> "",
                EnableCloudWatchLogs |-> TRUE, LogRetentionDays |-> retentionDays])])
        /\ NoIAMCall

WithIAM ==
    \E config \in IAMInputs :
        /\ StackCall([b EXCEPT !.IAM = Ptr(config)])
        /\ ReplacesIAM

ExistingRoleConfig(roleARN) ==
    [RoleARN |-> roleARN, EnableBedrockAccess |-> FALSE, BedrockModelIDs |-> <<>>]

WithExistingRole ==
    \E roleARN \in RoleARNs :
        /\ StackCall([b EXCEPT !.IAM = Ptr(ExistingRoleConfig(roleARN))])
        /\ ReplacesIAM

BedrockModelsConfig(iam, modelIDs) ==
    [(IF IsNil(iam) THEN DefaultIAMConfig ELSE Deref(iam))
        EXCEPT !.BedrockModelIDs = modelIDs]

WithBedrockModels ==
    \E modelIDs \in ModelInputs :
        /\ StackCall([b EXCEPT !.IAM = Ptr(BedrockModelsConfig(b.IAM, modelIDs))])
        /\ asked' = [called |-> TRUE, models |-> modelIDs, live |-> TRUE]

WithTags ==
    \E t \in TagsInputs : CountedStackCall([b EXCEPT !.Tags = MapMerge(@, t)])

WithTag == \E kv \in TagInputs : CountedStackCall([b EXCEPT !.Tags = MapPut(@, kv[1], kv[2])])

(* The value of a StackConfig as a reader sees it *)
DeepStack(c) == [c EXCEPT !.Agents = [i \in DOMAIN @ |-> DeepAgent(@[i])]]

BuilderConfig ==
    /\ CanCall
    /\ snap' = [kind |-> "stack", cfg |-> b, val |-> DeepStack(b)]
    /\ calls' = calls + 1
    /\ NoRun
    /\ UNCHANGED <<b, ab, envHeap, asked>>

-----------------------------------------------------------------------------
(* Resource translator: NewAgentCoreStack *)

ZeroStack ==
    [Config |-> NewStackBuilder(""), VPC |-> FALSE, PublicSubnet |-> FALSE,
     PrivateSubnet |-> FALSE, InternetGateway |-> FALSE, NatGateway |-> FALSE,
     SecurityGroup |-> FALSE, ExecutionRole |-> FALSE, LogGroup |-> FALSE,
     Outputs |-> {}]

NoResult == [stack |-> FALSE, err |-> <<>>]

(* Mutant: the NAT gateway is requested before its elastic IP *)
NetworkStepsNatFirst ==
    <<"vpc", "igw", "public-subnet", "private-subnet", "nat", "nat-eip",
      "public-rt", "public-rta", "private-rt", "private-rta">>

NetworkSteps ==
    <<"vpc", "igw", "public-subnet", "private-subnet", "nat-eip", "nat",
      "public-rt", "public-rta", "private-rt", "private-rta">>
SecurityGroupSteps == <<"sg", "sg-self-ingress">>
IAMSteps == <<"execution-role", "execution-policy", "execution-policy-attachment">>
LogGroupSteps == <<"log-group">>

SeqRange(q) == {q[i] : i \in DOMAIN q}

(* Mutant: the access role is created before the security group *)
CreateOrderRoleFirst(config) ==
    (IF Deref(config.VPC).CreateVPC THEN NetworkSteps ELSE <<>>)
    \o IAMSteps
    \o SecurityGroupSteps
    \o (IF Deref(config.Observability).EnableCloudWatchLogs THEN LogGroupSteps ELSE <<>>)

(* The requests NewAgentCoreStack issues for a configuration, in program order *)
CreateOrder(config) ==
    (IF Deref(config.VPC).CreateVPC THEN NetworkSteps ELSE <<>>)
    \o SecurityGroupSteps
    \o IAMSteps
    \o (IF Deref(config.Observability).EnableCloudWatchLogs THEN LogGroupSteps ELSE <<>>)

FirstStep(config) == CreateOrder(config)[1]

NextStep(name, config) ==
    LET order == CreateOrder(config)
        i == CHOOSE k \in DOMAIN order : order[k] = name
    IN  IF i = Len(order) THEN "export" ELSE order[i + 1]

(* Mutant: one message for every failed request *)
ErrorPrefixGeneric(name) == "failed to create stack"

(* The message NewAgentCoreStack wraps a failed request's error in *)
ErrorPrefix(name) ==
    IF name \in SeqRange(NetworkSteps) THEN "failed to create VPC"
    ELSE IF name \in SeqRange(SecurityGroupSteps) THEN "failed to create security group"
    ELSE IF name \in SeqRange(IAMSteps) THEN "failed to create IAM role"
    ELSE "failed to create log group"

(* Mutant: the error of a request is dropped and the sequence goes on *)
OnErrorContinue(name, config) == NextStep(name, config)

(* Mutant: a failed request is issued again *)
OnErrorRetry(name, config) == name

(* Where NewAgentCoreStack goes when the request `name` returns an error:
   every create function returns the error and NewAgentCoreStack returns it *)
OnError(name, config) == "failed"

(* Mutant: the verdict of Validate is ignored *)
AfterValidateIgnored(config, err) == FirstStep(config)

(* Mutant: a configuration is refused once requests were issued *)
AfterValidateOnce(config, err) ==
    IF err # "" \/ reqs # <<>> THEN "rejected" ELSE FirstStep(config)

(* What NewAgentCoreStack does after defaulting, given Validate's verdict *)
AfterValidate(config, err) == IF err # "" THEN "rejected" ELSE FirstStep(config)

StackTags(config) ==
    MapPut([k \in DOMAIN config.Tags |-> PulumiString(config.Tags[k])],
           "ManagedBy", PulumiString("agentkit-pulumi"))

MustFns == {"MustBuild", "MustNewStackFromFile"}

(* The value a Must variant panics with: MustBuild the error itself,
   MustNewStackFromFile a message around it *)
PanicValue(fn, err) ==
    IF fn = "MustBuild" THEN err ELSE <<"failed to create stack from", err>>

(* Mutant: a Must variant returns a nil stack on error *)
LeaveReturning(fn, p) == p

(* Where the entry point fn leaves the program when the fallible operation
   ended in p: a Must variant panics when it ended with an error *)
Leave(fn, p) ==
    IF fn \in MustFns /\ p \in {"rejected", "failed", "unloaded"} THEN "panicked" ELSE p

Panicked(fn, p, err) == IF Leave(fn, p) = "panicked" THEN PanicValue(fn, err) ELSE <<>>

(* The entry-point call in progress, or the last one *)
Entry == runs[Len(runs)]

(* NewAgentCoreStack(ctx, given), reached through the entry point fn, up to
   its first request *)
NewAgentCoreStack(fn, given) ==
    /\ builds' = builds + 1
    /\ runs' = Append(runs, [fn |-> fn, config |-> Ptr(given)])
    /\ LET config == ApplyDefaults(given)
           err == Validate(config)
           next == AfterValidate(config, err)
       IN  /\ pc' = Leave(fn, next)
           /\ IF next = "rejected"
              THEN /\ ret' = [stack |-> FALSE,
                              err |-> <<"invalid stack configuration", err>>]
                   /\ panic' = Panicked(fn, next, <<"invalid stack configuration", err>>)
                   /\ UNCHANGED <<stack, tags>>
              ELSE /\ ret' = NoResult
                   /\ panic' = <<>>
                   /\ stack' = [ZeroStack EXCEPT !.Config = config]
                   /\ tags' = StackTags(config)
    /\ UNCHANGED <<b, ab, envHeap, reqs, exports, calls, snap, asked>>

Build == pc = "idle" /\ NewAgentCoreStack("Build", b)

MustBuild == pc = "idle" /\ NewAgentCoreStack("MustBuild", b)

(* NewStackFromFile(ctx, configPath) reached through fn: a load error is
   returned as it is, a loaded configuration goes to NewAgentCoreStack *)
FromFile(fn, configPath) ==
    LET loaded == LoadStackConfigFromFile(configPath)
    IN  IF loaded.err # ""
        THEN /\ builds' = builds + 1
             /\ runs' = Append(runs, [fn |-> fn, config |-> Nil])
             /\ pc' = Leave(fn, "unloaded")
             /\ ret' = [stack |-> FALSE, err |-> <<loaded.err>>]
             /\ panic' = Panicked(fn, "unloaded", <<loaded.err>>)
             /\ UNCHANGED <<b, ab, envHeap, stack, tags, reqs, exports, calls, snap, asked>>
        ELSE NewAgentCoreStack(fn, Deref(loaded.config))

NewStackFromFile ==
    \E configPath \in FilePaths : pc = "idle" /\ FromFile("NewStackFromFile", configPath)

MustNewStackFromFile ==
    \E configPath \in FilePaths : pc = "idle" /\ FromFile("MustNewStackFromFile", configPath)

(* The program goes on after an entry point returned (not after a panic) *)
Continue ==
    /\ pc \in {"done", "failed", "rejected", "unloaded"}
    /\ builds < MaxBuilds
    /\ pc' = "idle"
    /\ UNCHANGED <<b, ab, envHeap, stack, tags, reqs, exports, ret, builds, calls, snap,
                   asked, runs, panic>>

(* Mutant: Validate checks the configuration by handing it to
   NewAgentCoreStack *)
BuilderValidateByBuilding ==
    /\ CanCall
    /\ calls' = calls + 1
    /\ b' = ApplyDefaults(b)
    /\ LET config == ApplyDefaults(b)
           err == Validate(config)
           next == AfterValidate(config, err)
       IN  /\ pc' = next
           /\ IF next = "rejected"
              THEN /\ ret' = [stack |-> FALSE,
                              err |-> <<"invalid stack configuration", err>>]
                   /\ UNCHANGED <<stack, tags>>
              ELSE /\ ret' = NoResult
                   /\ stack' = [ZeroStack EXCEPT !.Config = config]
                   /\ tags' = StackTags(config)
    /\ UNCHANGED <<ab, envHeap, reqs, exports, builds, snap, asked, runs, panic>>

(* Mutant: Validate's defaulting overwrites the observability configuration
   the builder holds *)
BuilderValidateResetsObservability ==
    CountedStackCall([ApplyDefaults(b) EXCEPT
                          !.Observability = Ptr(DefaultObservabilityConfig)])

(* StackBuilder.Validate applies the defaults to the builder's own
   configuration and validates it; the verdict goes to the caller *)
BuilderValidate == CountedStackCall(ApplyDefaults(b))

(* Mutant: the Name tag is written into the base map, which is returned *)
mergeTagsInPlace(base, name) ==
    [result |-> MapPut(base, "Name", name), base |-> MapPut(base, "Name", name)]

(* mergeTags(base, name): the map it returns, and the base map as the call
   leaves it (the entries are copied into a new map, stack.go:16-19) *)
mergeTags(base, name) == [result |-> MapPut(base, "Name", name), base |-> base]

BaseReq(name) ==
    [run |-> builds, name |-> name, refs |-> {}, vpcId |-> Unset, cidr |-> Unset,
     tagged |-> FALSE, tags |-> EmptyMap, retention |-> 0, policy |-> <<>>]

Tagged(req, suffix) ==
    [req EXCEPT !.tagged = TRUE,
                !.tags = mergeTags(tags, Sprintf(stack.Config.StackName, suffix)).result]

(* One resource-creation request: the engine records it and either returns
   the resource or fails *)
Issue(name, req, okStack) ==
    /\ pc = name
    /\ reqs' = Append(reqs, req)
    /\ \E ok \in BOOLEAN :
          IF ok
          THEN /\ stack' = okStack
               /\ pc' = NextStep(name, stack.Config)
               /\ ret' = ret
          ELSE /\ stack' = stack
               /\ pc' = Leave(Entry.fn, OnError(name, stack.Config))
               /\ ret' = [stack |-> FALSE, err |-> <<ErrorPrefix(name), "engine error">>]
    /\ panic' = IF pc' = "panicked"
                THEN PanicValue(Entry.fn, <<ErrorPrefix(name), "engine error">>)
                ELSE <<>>
    /\ tags' = IF req.tagged THEN mergeTags(tags, req.tags["Name"]).base ELSE tags
    /\ UNCHANGED <<b, ab, envHeap, exports, builds, calls, snap, asked, runs>>

VpcID == OutputOf("id", "vpc")

NewVpc ==
    Issue("vpc",
          Tagged([BaseReq("vpc") EXCEPT !.cidr = Deref(stack.Config.VPC).VPCCidr], "-vpc"),
          [stack EXCEPT !.VPC = TRUE])

NewInternetGateway ==
    Issue("igw",
          Tagged([BaseReq("igw") EXCEPT !.vpcId = VpcID, !.refs = {"vpc"}], "-igw"),
          [stack EXCEPT !.InternetGateway = TRUE])

PublicSubnetCidr == <<10, 0, 1, 0, 24>>
PrivateSubnetCidr == <<10, 0, 10, 0, 24>>

NewPublicSubnet ==
    Issue("public-subnet",
          Tagged([BaseReq("public-subnet") EXCEPT !.vpcId = VpcID, !.refs = {"vpc"},
                                                 !.cidr = PublicSubnetCidr], "-public"),
          [stack EXCEPT !.PublicSubnet = TRUE])

NewPrivateSubnet ==
    Issue("private-subnet",
          Tagged([BaseReq("private-subnet") EXCEPT !.vpcId = VpcID, !.refs = {"vpc"},
                                                  !.cidr = PrivateSubnetCidr], "-private"),
          [stack EXCEPT !.PrivateSubnet = TRUE])

NewEip ==
    Issue("nat-eip",
          Tagged([BaseReq("nat-eip") EXCEPT !.refs = {"igw"}], "-nat-eip"),
          stack)

NewNatGateway ==
    Issue("nat",
          Tagged([BaseReq("nat") EXCEPT !.refs = {"nat-eip", "public-subnet", "igw"}],
                 "-nat"),
          [stack EXCEPT !.NatGateway = TRUE])

NewPublicRouteTable ==
    Issue("public-rt",
          Tagged([BaseReq("public-rt") EXCEPT !.vpcId = VpcID, !.refs = {"vpc", "igw"}],
                 "-public-rt"),
          stack)

NewPublicRouteTableAssociation ==
    Issue("public-rta",
          [BaseReq("public-rta") EXCEPT !.refs = {"public-subnet", "public-rt"}],
          stack)

NewPrivateRouteTable ==
    Issue("private-rt",
          Tagged([BaseReq("private-rt") EXCEPT !.vpcId = VpcID, !.refs = {"vpc", "nat"}],
                 "-private-rt"),
          stack)

NewPrivateRouteTableAssociation ==
    Issue("private-rta",
          [BaseReq("private-rta") EXCEPT !.refs = {"private-subnet", "private-rt"}],
          stack)

(* Mutant: the security group reads the VPC identifier from the configuration
   only *)
SecurityGroupVpcIdFromConfig(s) ==
    IF Deref(s.Config.VPC).VPCID # "" THEN PulumiString(Deref(s.Config.VPC).VPCID)
    ELSE Unset

(* The VpcId argument of the security group (stack.go:228-233) *)
SecurityGroupVpcId(s) ==
    IF s.VPC THEN VpcID
    ELSE IF Deref(s.Config.VPC).VPCID # "" THEN PulumiString(Deref(s.Config.VPC).VPCID)
    ELSE Unset

NewSecurityGroup ==
    Issue("sg",
          Tagged([BaseReq("sg") EXCEPT !.vpcId = SecurityGroupVpcId(stack),
                                      !.refs = IF stack.VPC THEN {"vpc"} ELSE {}], "-sg"),
          [stack EXCEPT !.SecurityGroup = TRUE])

NewSecurityGroupRule ==
    Issue("sg-self-ingress", [BaseReq("sg-self-ingress") EXCEPT !.refs = {"sg"}], stack)

NewRole ==
    Issue("execution-role", Tagged(BaseReq("execution-role"), "-execution-role"),
          [stack EXCEPT !.ExecutionRole = TRUE])

Wildcard == "*"

(* Mutant: the allow-list is not read *)
BedrockResourcesAll(iam) == <<Wildcard>>

BedrockResources(iam) ==
    IF Len(iam.BedrockModelIDs) > 0 THEN iam.BedrockModelIDs ELSE <<Wildcard>>

(* The statements of the execution policy, in order (stack.go:324-403) *)
buildIAMPolicyStatements(config) ==
    LET hasSecrets ==
            \E i \in DOMAIN config.Agents : Len(config.Agents[i].SecretsARNs) > 0
    IN  <<[sid |-> "logs", resources |-> <<Wildcard>>],
          [sid |-> "ecr", resources |-> <<Wildcard>>]>>
        \o (IF Deref(config.IAM).EnableBedrockAccess
            THEN <<[sid |-> "bedrock", resources |-> BedrockResources(Deref(config.IAM))]>>
            ELSE <<>>)
        \o (IF hasSecrets
            THEN <<[sid |-> "secretsmanager", resources |-> <<Wildcard>>]>>
            ELSE <<>>)

NewPolicy ==
    Issue("execution-policy",
          [BaseReq("execution-policy") EXCEPT
               !.policy = buildIAMPolicyStatements(stack.Config)],
          stack)

NewRolePolicyAttachment ==
    Issue("execution-policy-attachment",
          [BaseReq("execution-policy-attachment") EXCEPT
               !.refs = {"execution-role", "execution-policy"}],
          stack)

DefaultRetentionDays == 30

(* Mutant: the configured retention is passed on as it is *)
RetentionDaysAsConfigured(o) == o.LogRetentionDays

RetentionDays(o) ==
    IF o.LogRetentionDays = 0 THEN DefaultRetentionDays ELSE o.LogRetentionDays

NewLogGroup ==
    Issue("log-group",
          Tagged([BaseReq("log-group") EXCEPT
                      !.retention = RetentionDays(Deref(stack.Config.Observability))],
                 "-logs"),
          [stack EXCEPT !.LogGroup = TRUE])

(* Mutant: the log group's name is not exported *)
ExportedOutputsNoLogGroup(s) ==
    (IF s.VPC THEN <<[name |-> "vpcId", value |-> VpcID]>> ELSE <<>>)
    \o (IF s.PrivateSubnet
        THEN <<[name |-> "privateSubnetId", value |-> OutputOf("id", "private-subnet")]>>
        ELSE <<>>)
    \o (IF s.SecurityGroup
        THEN <<[name |-> "securityGroupId", value |-> OutputOf("id", "sg")]>>
        ELSE <<>>)
    \o (IF s.ExecutionRole
        THEN <<[name |-> "executionRoleArn", value |-> OutputOf("arn", "execution-role")]>>
        ELSE <<>>)
    \o <<[name |-> "agentCount", value |-> <<Len(s.Config.Agents)>>]>>

(* The ctx.Export calls of exportOutputs, in order (stack.go:428-455) *)
ExportedOutputs(s) ==
    (IF s.VPC THEN <<[name |-> "vpcId", value |-> VpcID]>> ELSE <<>>)
    \o (IF s.PrivateSubnet
        THEN <<[name |-> "privateSubnetId", value |-> OutputOf("id", "private-subnet")]>>
        ELSE <<>>)
    \o (IF s.SecurityGroup
        THEN <<[name |-> "securityGroupId", value |-> OutputOf("id", "sg")]>>
        ELSE <<>>)
    \o (IF s.ExecutionRole
        THEN <<[name |-> "executionRoleArn", value |-> OutputOf("arn", "execution-role")]>>
        ELSE <<>>)
    \o (IF s.LogGroup
        THEN <<[name |-> "logGroupName", value |-> OutputOf("name", "log-group")]>>
        ELSE <<>>)
    \o <<[name |-> "agentCount", value |-> <<Len(s.Config.Agents)>>]>>

exportOutputs ==
    /\ pc = "export"
    /\ LET out == ExportedOutputs(stack)
       IN  /\ exports' = exports \o [i \in DOMAIN out |->
                              [run |-> builds, name |-> out[i].name, value |-> out[i].value]]
           /\ stack' = [stack EXCEPT !.Outputs =
                              {out[i].name : i \in DOMAIN out} \ {"agentCount"}]
    /\ pc' = "done"
    /\ ret' = [stack |-> TRUE, err |-> <<>>]
    /\ UNCHANGED <<b, ab, envHeap, tags, reqs, builds, calls, snap, asked, runs, panic>>

-----------------------------------------------------------------------------
(* Specification *)

Init ==
    /\ \E stackName \in StackNames : b = NewStackBuilder(stackName)
    /\ ab = NewAgentBuilder("a")
    /\ envHeap = EmptyMap
    /\ pc = "idle"
    /\ stack = ZeroStack
    /\ tags = EmptyMap
    /\ reqs = <<>>
    /\ exports = <<>>
    /\ ret = NoResult
    /\ builds = 0
    /\ calls = 0
    /\ snap = [kind |-> "none", cfg |-> <<>>, val |-> <<>>]
    /\ asked = [called |-> FALSE, models |-> <<>>, live |-> FALSE]
    /\ runs = <<>>
    /\ panic = <<>>

(* The translator: Build and the steps of the NewAgentCoreStack it starts *)
Translate ==
    \/ Build
    \/ NewVpc
    \/ NewInternetGateway
    \/ NewPublicSubnet
    \/ NewPrivateSubnet
    \/ NewEip
    \/ NewNatGateway
    \/ NewPublicRouteTable
    \/ NewPublicRouteTableAssociation
    \/ NewPrivateRouteTable
    \/ NewPrivateRouteTableAssociation
    \/ NewSecurityGroup
    \/ NewSecurityGroupRule
    \/ NewRole
    \/ NewPolicy
    \/ NewRolePolicyAttachment
    \/ NewLogGroup
    \/ exportOutputs

(* Programs that configure a stack with the StackBuilder's own calls, in any
   number and order, and then build it *)
Next ==
    \/ WithSimpleAgent
    \/ WithDefaultAgent
    \/ WithExistingVPC
    \/ WithNewVPC
    \/ WithObservability
    \/ WithOpik
    \/ WithLangfuse
    \/ WithCloudWatchOnly
    \/ WithIAM
    \/ WithExistingRole
    \/ WithBedrockModels
    \/ Translate

Spec == Init /\ [][Next]_vars

(* Programs that assemble agents with the AgentBuilder, hand them to the
   StackBuilder, tag, inspect and validate the configuration, and then build
   it; at most MaxCalls builder calls *)
NextBuilder ==
    \/ AgentWithMemory
    \/ AgentWithTimeout
    \/ AgentWithEnvironment
    \/ AgentWithEnvVar
    \/ AgentWithSecrets
    \/ AgentAsDefault
    \/ AgentBuild
    \/ WithAgent
    \/ WithAgents
    \/ WithSecretValues
    \/ WithTags
    \/ WithTag
    \/ BuilderValidate
    \/ BuilderConfig
    \/ Translate

SpecBuilder == Init /\ [][NextBuilder]_vars

(* Programs that reach the translator through any of the four entry points,
   from a builder or from a configuration file *)
NextEntry ==
    \/ WithSimpleAgent
    \/ WithOpik
    \/ WithLangfuse
    \/ MustBuild
    \/ NewStackFromFile
    \/ MustNewStackFromFile
    \/ Translate

SpecEntry == Init /\ [][NextEntry]_vars

(* Programs that configure a builder, build, and go on after Build returned:
   they may validate the builder, before or after, and build again, at most
   MaxBuilds times in all *)
NextRebuild ==
    \/ (builds = 0 /\ AgentWithMemory)
    \/ (builds = 0 /\ WithAgent)
    \/ (builds = 0 /\ WithCloudWatchOnly)
    \/ BuilderValidate
    \/ Continue
    \/ Translate

SpecRebuild == Init /\ [][NextRebuild]_vars

-----------------------------------------------------------------------------
(* Properties *)

ReqNames == {reqs[i].name : i \in DOMAIN reqs}
ExportNames == {exports[i].name : i \in DOMAIN exports}
Accepted == pc \notin {"idle", "rejected"}
ValidationError == "invalid stack configuration"
Failed == ret.err # <<>> /\ ret.err[1] # ValidationError

(* C1: a configuration that validation rejects makes Build return an error and
   no stack with no resource request and no export issued, and whenever a
   request has been issued the configuration was defaulted and validated
   first. *)
C1_FailFast ==
    /\ Validate(ApplyDefaults(b)) # "" => reqs = <<>> /\ exports = <<>>
    /\ pc = "rejected" =>
          /\ reqs = <<>> /\ exports = <<>>
          /\ ~ret.stack
          /\ ret.err = <<ValidationError, Validate(ApplyDefaults(b))>>
    /\ reqs # <<>> =>
          /\ stack.Config = ApplyDefaults(b)
          /\ Validate(stack.Config) = ""

C1_Witness ==
    /\ pc = "rejected"
    /\ builds = 1
    /\ Len(b.Agents) > 0
    /\ Validate(ApplyDefaults(b)) # ""

Rank(name) ==
    IF name \in {"vpc", "igw", "public-subnet", "private-subnet", "nat-eip", "nat",
                 "public-rt", "public-rta", "private-rt", "private-rta"} THEN 1
    ELSE IF name \in {"sg", "sg-self-ingress"} THEN 2
    ELSE IF name \in {"execution-role", "execution-policy",
                      "execution-policy-attachment"} THEN 3
    ELSE 4

RequiredNames(config) ==
    {"sg", "sg-self-ingress", "execution-role", "execution-policy",
     "execution-policy-attachment"}
    \cup (IF Deref(config.VPC).CreateVPC
          THEN {"vpc", "igw", "public-subnet", "private-subnet", "nat-eip", "nat",
                "public-rt", "public-rta", "private-rt", "private-rta"}
          ELSE {})
    \cup (IF Deref(config.Observability).EnableCloudWatchLogs THEN {"log-group"} ELSE {})

(* C2: requests are issued one resource kind at a time in the order network,
   security group, access role, log group; outputs are exported only after
   every request of the configuration was issued, and a stack is returned only
   for a validated configuration after translating it. *)
C2_FixedOrder ==
    /\ \A i, j \in DOMAIN reqs : i < j => Rank(reqs[i].name) <= Rank(reqs[j].name)
    /\ exports # <<>> => pc = "done" /\ ReqNames = RequiredNames(stack.Config)
    /\ pc = "done" =>
          /\ Validate(stack.Config) = ""
          /\ ReqNames = RequiredNames(stack.Config)
          /\ exports # <<>>
          /\ ret.stack

C2_Witness ==
    /\ pc = "done"
    /\ Deref(stack.Config.VPC).CreateVPC
    /\ Deref(stack.Config.Observability).EnableCloudWatchLogs
    /\ Cardinality({Rank(reqs[i].name) : i \in DOMAIN reqs}) = 4

(* C3: once a resource request has failed, no further request is issued and
   none is withdrawn, nothing is exported, and the caller holds an error and no
   stack. *)
C3_AbortOnFailure ==
    /\ [](Failed => ~ret.stack /\ exports = <<>> /\ pc = "failed")
    /\ [][Failed => reqs' = reqs /\ exports' = exports /\ ret' = ret]_vars

C3_Witness ==
    /\ pc = "failed"
    /\ Failed
    /\ Len(reqs) > 1
    /\ Len(reqs) < Cardinality(RequiredNames(stack.Config))

NetworkNames ==
    {"vpc", "igw", "public-subnet", "private-subnet", "nat-eip", "nat",
     "public-rt", "public-rta", "private-rt", "private-rta"}

SixOutputs ==
    {"vpcId", "privateSubnetId", "securityGroupId", "executionRoleArn",
     "logGroupName", "agentCount"}

(* C4 as stated: after every successful translation all six named outputs
   are exported. *)
C4_AllSixOutputs == pc = "done" => SixOutputs \subseteq ExportNames

(* C4 as amended: after a successful translation securityGroupId,
   executionRoleArn and agentCount are exported; vpcId and privateSubnetId are
   exported exactly when the translator created the VPC, and logGroupName
   exactly when CloudWatch logging is enabled. *)
C4_OutputsOfCreated ==
    pc = "done" =>
        /\ ExportNames =
              {"securityGroupId", "executionRoleArn", "agentCount"}
              \cup (IF Deref(stack.Config.VPC).CreateVPC
                    THEN {"vpcId", "privateSubnetId"} ELSE {})
              \cup (IF Deref(stack.Config.Observability).EnableCloudWatchLogs
                    THEN {"logGroupName"} ELSE {})
        /\ \A i \in DOMAIN exports :
              exports[i].name = "agentCount" =>
                  exports[i].value = <<Len(stack.Config.Agents)>>

C4_Witness ==
    /\ pc = "done"
    /\ ~Deref(stack.Config.VPC).CreateVPC
    /\ ~Deref(stack.Config.Observability).EnableCloudWatchLogs
    /\ ExportNames = {"securityGroupId", "executionRoleArn", "agentCount"}

(* C5: with a pre-existing role reference in the IAM configuration no
   execution-role request is issued and the exported access-role reference is
   the pre-existing one. *)
C5_ExistingRoleReused ==
    (Accepted /\ Deref(stack.Config.IAM).RoleARN # "") =>
        /\ "execution-role" \notin ReqNames
        /\ \A i \in DOMAIN exports :
              exports[i].name = "executionRoleArn" =>
                  exports[i].value = PulumiString(Deref(stack.Config.IAM).RoleARN)

(* C6: with createVPC the network resources are requested and the security
   group is attached to the new VPC; without it no network resource is
   requested and the security group is attached to the configured existing VPC
   identifier. *)
C6_OneVPCVariant ==
    Accepted =>
        LET v == Deref(stack.Config.VPC)
        IN  \A i \in DOMAIN reqs :
                IF v.CreateVPC
                THEN reqs[i].name = "sg" =>
                        /\ NetworkNames = {reqs[j].name : j \in 1..(i - 1)}
                        /\ reqs[i].vpcId = VpcID
                        /\ "vpc" \in reqs[i].refs
                ELSE /\ reqs[i].name \notin NetworkNames
                     /\ reqs[i].name = "sg" =>
                            /\ v.VPCID # ""
                            /\ reqs[i].vpcId = PulumiString(v.VPCID)
                            /\ reqs[i].refs = {}

C6_Witness ==
    /\ "sg" \in ReqNames
    /\ ~Deref(stack.Config.VPC).CreateVPC
    /\ Deref(stack.Config.VPC).VPCID = "vpc-1"

BadExistingVPC(c) ==
    /\ ~IsNil(c.VPC)
    /\ ~Deref(c.VPC).CreateVPC
    /\ Deref(c.VPC).VPCID = "" \/ Len(Deref(c.VPC).SubnetIDs) = 0

(* C7: a configuration that uses an existing VPC with an empty VPC identifier
   or an empty subnet list is rejected before any resource request, and the
   security group is never requested with an unset VPC identifier. *)
C7_ExistingVPCChecked ==
    /\ BadExistingVPC(b) =>
          /\ reqs = <<>> /\ exports = <<>>
          /\ builds > 0 => pc = "rejected" /\ ~ret.stack /\ ret.err # <<>>
    /\ \A i \in DOMAIN reqs : reqs[i].name = "sg" => reqs[i].vpcId # Unset

C7_Witness ==
    /\ BadExistingVPC(b)
    /\ pc = "rejected"
    /\ ret.err \in {<<ValidationError, "vpcId required">>,
                     <<ValidationError, "subnetIds required">>}

(* C8: whatever StackBuilder and AgentBuilder calls a program makes before
   Build, no resource request and no export has reached the engine and the
   translator has not run; Build hands the accumulated configuration to the
   translator, which is the one that validates it. *)
C8_BuilderIsPure ==
    /\ builds = 0 =>
          /\ reqs = <<>> /\ exports = <<>>
          /\ pc = "idle" /\ stack = ZeroStack /\ ret = NoResult
    /\ Accepted => stack.Config = ApplyDefaults(b)
    /\ pc = "rejected" => Validate(ApplyDefaults(b)) # ""

C8_Witness ==
    /\ builds = 0
    /\ snap.kind = "stack"
    /\ ~IsNil(b.VPC)
    /\ Len(b.Agents) > 0
    /\ reqs = <<>>

(* The value now read through the configuration a builder returned earlier *)
SnapNow ==
    IF snap.kind = "agent" THEN DeepAgent(snap.cfg)
    ELSE [DeepStack(snap.cfg) EXCEPT !.Tags = b.Tags]

(* C9: an AgentConfig returned by AgentBuilder.Build and a StackConfig
   returned by StackBuilder.Config keep the value they had when returned,
   and the agents a StackBuilder holds are changed by StackBuilder calls
   only. *)
C9_NoAliasing ==
    /\ [](snap.kind # "none" => SnapNow = snap.val)
    /\ [][b' = b => DeepStack(b)' = DeepStack(b)]_vars

BedrockStatements(policy) == SelectSeq(policy, LAMBDA st : st.sid = "bedrock")

(* C10 as stated: after WithBedrockModels(m1..mk), k >= 1, in any order
   relative to the other IAM builder calls, the policy has the Bedrock
   statement listing exactly m1..mk; with access enabled and an empty
   allow-list it covers all foundation models; with access disabled there is
   no Bedrock statement. *)
C10_ModelsInAnyOrder ==
    \A i \in DOMAIN reqs :
        reqs[i].name = "execution-policy" =>
            LET iam == Deref(stack.Config.IAM)
                st == BedrockStatements(reqs[i].policy)
            IN  /\ (asked.called /\ Len(asked.models) >= 1) =>
                        Len(st) = 1 /\ st[1].resources = asked.models
                /\ (iam.EnableBedrockAccess /\ Len(iam.BedrockModelIDs) = 0) =>
                        Len(st) = 1 /\ st[1].resources = <<Wildcard>>
                /\ ~iam.EnableBedrockAccess => Len(st) = 0

(* C10 as amended: the policy has the Bedrock statement exactly when the IAM
   configuration in effect at Build has Bedrock access enabled, listing
   exactly its allow-list when that is non-empty and all foundation models
   when it is empty.  WithBedrockModels(m1..mk) sets the allow-list of the
   configuration in effect and keeps its access flag, so the statement lists
   m1..mk when no later WithIAM or WithExistingRole replaced the configuration
   and access is enabled in it (it is not after WithExistingRole). *)
C10_PolicyFollowsIAM ==
    \A i \in DOMAIN reqs :
        reqs[i].name = "execution-policy" =>
            LET iam == Deref(stack.Config.IAM)
                st == BedrockStatements(reqs[i].policy)
            IN  /\ Len(st) = (IF iam.EnableBedrockAccess THEN 1 ELSE 0)
                /\ iam.EnableBedrockAccess =>
                        st[1].resources =
                            (IF Len(iam.BedrockModelIDs) > 0
                             THEN iam.BedrockModelIDs ELSE <<Wildcard>>)
                /\ (asked.called /\ asked.live) => iam.BedrockModelIDs = asked.models
                /\ (asked.called /\ asked.live /\ Len(asked.models) >= 1
                        /\ iam.EnableBedrockAccess) =>
                        /\ st[1].resources = asked.models
                        /\ Wildcard \notin SeqRange(st[1].resources)

C10_Witness ==
    /\ "execution-policy" \in ReqNames
    /\ asked.called /\ asked.live
    /\ asked.models = <<"m1", "m2">>
    /\ Deref(stack.Config.IAM).EnableBedrockAccess

-----------------------------------------------------------------------------
(* Runs of the translator, read from the history *)

RunReqs(r) ==
    LET own == SelectSeq(reqs, LAMBDA q : q.run = r)
    IN  [i \in DOMAIN own |-> [own[i] EXCEPT !.run = 0]]

RunExports(r) ==
    LET own == SelectSeq(exports, LAMBDA e : e.run = r)
    IN  [i \in DOMAIN own |-> [own[i] EXCEPT !.run = 0]]

RunDone(r) == \E i \in DOMAIN exports : exports[i].run = r

Prefix(p, q) == Len(p) <= Len(q) /\ \A i \in DOMAIN p : p[i] = q[i]

(* C11: applying the defaults to a defaulted configuration changes nothing and
   a configuration valid after defaulting stays valid; a program that builds,
   validates the builder any number of times and builds again hands the
   translator configurations with the same defaults applied, and the later
   Build issues the same requests and exports as the earlier one (the same
   sequence as far as both got), and is not rejected when the earlier was
   accepted. *)
C11_DefaultsIdempotent ==
    /\ ApplyDefaults(ApplyDefaults(b)) = ApplyDefaults(b)
    /\ Validate(ApplyDefaults(b)) = "" => Validate(ApplyDefaults(ApplyDefaults(b))) = ""
    /\ \A r1, r2 \in DOMAIN runs :
          r1 < r2 =>
              /\ ApplyDefaults(Deref(runs[r1].config)) = ApplyDefaults(Deref(runs[r2].config))
              /\ Prefix(RunReqs(r1), RunReqs(r2)) \/ Prefix(RunReqs(r2), RunReqs(r1))
              /\ (RunDone(r1) /\ RunDone(r2)) =>
                      /\ RunReqs(r1) = RunReqs(r2)
                      /\ RunExports(r1) = RunExports(r2)
              /\ (RunReqs(r1) # <<>> /\ r2 = Len(runs)) => pc # "rejected"

C11_Witness ==
    /\ Len(runs) = 2
    /\ RunDone(1) /\ RunDone(2)
    /\ runs[1].config # runs[2].config
    /\ IsNil(Deref(runs[1].config).VPC)
    /\ Deref(runs[1].config).Agents[1].MemoryMB = 0
    /\ runs[2].config = Ptr(ApplyDefaults(Deref(runs[1].config)))

MissingAPIKey(c) ==
    /\ ~IsNil(c.Observability)
    /\ Deref(c.Observability).Provider \in {"opik", "langfuse"}
    /\ Deref(c.Observability).APIKeySecretARN = ""

(* C12: a configuration with provider opik or langfuse and an empty API-key
   secret reference, from the builder or from a document, is rejected by
   validation: no resource request and no export is issued, the entry point
   returns (or panics with) a validation error, and the error names the
   missing secret reference when that is the configuration's only fault. *)
C12_APIKeyRequired ==
    \A r \in DOMAIN runs :
        (~IsNil(runs[r].config) /\ MissingAPIKey(Deref(runs[r].config))) =>
            LET c == Deref(runs[r].config)
            IN  /\ RunReqs(r) = <<>>
                /\ RunExports(r) = <<>>
                /\ r = Len(runs) =>
                      /\ pc \in {"rejected", "panicked"}
                      /\ ~ret.stack
                      /\ ret.err = <<ValidationError, Validate(ApplyDefaults(c))>>
                      /\ Validate(ApplyDefaults([c EXCEPT !.Observability = Nil])) = ""
                            => ret.err[2] = "apiKeySecretRef required"

C12_Witness ==
    /\ pc = "rejected"
    /\ Entry.fn = "NewStackFromFile"
    /\ Deref(Entry.config).StackName = "my-agents"
    /\ MissingAPIKey(Deref(Entry.config))
    /\ ret.err = <<ValidationError, "apiKeySecretRef required">>
    /\ reqs = <<>>

DefaultCount(c) == Cardinality({i \in DOMAIN c.Agents : c.Agents[i].IsDefault})

FirstMarked(c) == [c EXCEPT !.Agents[1].IsDefault = TRUE]

(* C13: a configuration with agents and none marked default gets the verdict
   it would get with its first agent marked, so it is accepted when nothing
   else is wrong; a configuration with two or more agents marked default is
   rejected with no resource request, as a validation error that names the
   default-marking when nothing before it is wrong; the builder accepts any
   number of WithDefaultAgent calls. *)
C13_DefaultMarking ==
    /\ (Len(b.Agents) >= 1 /\ DefaultCount(b) = 0) =>
          /\ Validate(ApplyDefaults(b)) = Validate(ApplyDefaults(FirstMarked(b)))
          /\ pc = "rejected" => ret.err[2] # "multiple default agents"
    /\ DefaultCount(b) >= 2 =>
          /\ reqs = <<>> /\ exports = <<>>
          /\ builds > 0 =>
                /\ pc = "rejected" /\ ~ret.stack
                /\ ret.err[1] = ValidationError
                /\ Validate(ApplyDefaults([b EXCEPT !.Agents[1].IsDefault = FALSE,
                                                     !.Agents[2].IsDefault = FALSE])) = ""
                      => ret.err[2] = "multiple default agents"
    /\ (pc = "done" /\ DefaultCount(b) = 0) => Len(b.Agents) >= 1

C13_Witness ==
    /\ pc = "rejected"
    /\ DefaultCount(b) = 2
    /\ ret.err = <<ValidationError, "multiple default agents">>
    /\ reqs = <<>>

LastRequest == reqs[Len(reqs)].name

(* C14 as stated: the error returned after a failed request carries the
   logical name of the request that failed. *)
C14_NamesResource == Failed => LastRequest \in SeqRange(ret.err)

PhaseMessage(name) ==
    CASE Rank(name) = 1 -> "failed to create VPC"
      [] Rank(name) = 2 -> "failed to create security group"
      [] Rank(name) = 3 -> "failed to create IAM role"
      [] OTHER -> "failed to create log group"

(* C14 as amended: the error returned after a failed request wraps the
   engine's error in a message that names the creation phase of the failed
   request (VPC, security group, IAM role or log group) and nothing more
   specific: no logical resource name is added to it. *)
C14_WrapsWithPhase ==
    Failed =>
        /\ ret.err = <<PhaseMessage(LastRequest), "engine error">>
        /\ \A name \in SeqRange(CreateOrder(stack.Config)) :
              Rank(name) = Rank(LastRequest) => ErrorPrefix(name) = ret.err[1]

C14_Witness ==
    /\ Failed
    /\ LastRequest = "nat"
    /\ ret.err = <<"failed to create VPC", "engine error">>

(* C15 as stated: once a Build has issued resource requests, a later Build
   on the same StackBuilder issues none. *)
C15_ConsumedOnce ==
    \A r1, r2 \in DOMAIN runs :
        (r1 < r2 /\ RunReqs(r1) # <<>>) => RunReqs(r2) = <<>>

Refused == ret.err # <<>> /\ ret.err[1] = ValidationError

RunNames(r) == [i \in DOMAIN RunReqs(r) |-> RunReqs(r)[i].name]

(* C15 as amended: Build does not consume the configuration.  It leaves the
   builder's configuration as it was, and every Build on the same
   StackBuilder runs the translator again: whatever earlier Builds issued, a
   Build is rejected only for an invalid configuration and otherwise issues
   the requests of its configuration from the first one on, under the same
   logical names, all of them when no request fails. *)
C15_EveryBuildTranslates ==
    /\ [](\A r \in DOMAIN runs :
             LET config == ApplyDefaults(Deref(runs[r].config))
             IN  IF Validate(config) # ""
                 THEN RunReqs(r) = <<>> /\ (r = Len(runs) => Refused)
                 ELSE /\ Prefix(RunNames(r), CreateOrder(config))
                      /\ RunDone(r) => RunNames(r) = CreateOrder(config)
                      /\ r = Len(runs) => ~Refused)
    /\ [][builds' # builds => b' = b /\ runs'[Len(runs')].config = Ptr(b)]_vars

C15_Witness ==
    /\ Len(runs) = 2
    /\ RunDone(1) /\ RunDone(2)
    /\ runs[1].config = runs[2].config
    /\ RunReqs(2) = RunReqs(1)
    /\ Len(RunReqs(2)) = 16

Ended == pc \in {"done", "rejected", "failed", "unloaded", "panicked"}

(* C16: MustBuild and MustNewStackFromFile panic exactly when the operation
   they wrap returned an error, with a value that holds that error, and
   otherwise return the stack it returned; Build and NewStackFromFile never
   panic and return the error. *)
C16_MustPanicsIffError ==
    /\ pc = "panicked" =>
          /\ runs # <<>> /\ Entry.fn \in MustFns
          /\ ret.err # <<>> /\ ~ret.stack
          /\ panic = (IF Entry.fn = "MustBuild" THEN ret.err
                      ELSE <<"failed to create stack from", ret.err>>)
    /\ (Ended /\ Entry.fn \in MustFns) =>
          /\ ret.err # <<>> <=> pc = "panicked"
          /\ ret.err = <<>> <=> (pc = "done" /\ ret.stack /\ panic = <<>>)
    /\ (Ended /\ Entry.fn \notin MustFns) =>
          /\ pc # "panicked" /\ panic = <<>>
          /\ ret.err # <<>> <=> pc \in {"rejected", "failed", "unloaded"}
          /\ ret.err = <<>> <=> (pc = "done" /\ ret.stack)
    /\ ~Ended => panic = <<>> /\ ret = NoResult

C16_Witness ==
    /\ pc = "panicked"
    /\ Entry.fn = "MustNewStackFromFile"
    /\ ~IsNil(Entry.config)
    /\ panic = <<"failed to create stack from", <<"failed to create IAM role", "engine error">> >>

LogicalNames ==
    {"vpc", "igw", "public-subnet", "private-subnet", "nat-eip", "nat", "public-rt",
     "public-rta", "private-rt", "private-rta", "sg", "sg-self-ingress",
     "execution-role", "execution-policy", "execution-policy-attachment", "log-group"}

(* C17: within one run of NewAgentCoreStack no two requests carry the same
   logical name, every request carries one of the sixteen names, and a run
   issues at most one request per name also after a request failed. *)
C17_NoRetries ==
    /\ \A i, j \in DOMAIN reqs :
          (i < j /\ reqs[i].run = reqs[j].run) => reqs[i].name # reqs[j].name
    /\ \A i \in DOMAIN reqs : reqs[i].name \in LogicalNames /\ reqs[i].run \in DOMAIN runs
    /\ \A r \in DOMAIN runs : Len(RunReqs(r)) <= Cardinality(LogicalNames)

C17_Witness ==
    /\ Len(runs) = 2
    /\ pc = "failed"
    /\ Len(RunReqs(1)) = Cardinality(LogicalNames)
    /\ Len(RunReqs(2)) = 3
    /\ \E i, j \in DOMAIN reqs : i < j /\ reqs[i].name = reqs[j].name

(* C18: the log group is requested only with CloudWatch logging enabled in
   the defaulted configuration, and then always by the time translation is
   done; its retention is the configured number of days, or 30 when that is
   zero, so 30 for a builder without observability configuration and after
   WithCloudWatchOnly(0); logGroupName is exported exactly when the log group
   was requested. *)
C18_LogGroup ==
    Accepted =>
        LET o == Deref(stack.Config.Observability)
        IN  /\ "log-group" \in ReqNames => o.EnableCloudWatchLogs
            /\ pc = "done" =>
                  /\ "log-group" \in ReqNames <=> o.EnableCloudWatchLogs
                  /\ "logGroupName" \in ExportNames <=> "log-group" \in ReqNames
            /\ "logGroupName" \in ExportNames => "log-group" \in ReqNames
            /\ \A i \in DOMAIN reqs :
                  reqs[i].name = "log-group" =>
                      /\ reqs[i].retention =
                            (IF o.LogRetentionDays # 0 THEN o.LogRetentionDays ELSE 30)
                      /\ IsNil(b.Observability) => reqs[i].retention = 30
                      /\ (~IsNil(b.Observability)
                             /\ Deref(b.Observability).LogRetentionDays = 0)
                            => reqs[i].retention = 30

C18_Witness ==
    /\ pc = "done"
    /\ ~IsNil(b.Observability)
    /\ Deref(b.Observability).Provider = "cloudwatch"
    /\ Deref(b.Observability).LogRetentionDays = 0
    /\ \E i \in DOMAIN reqs : reqs[i].name = "log-group" /\ reqs[i].retention = 30
    /\ "logGroupName" \in ExportNames

(* The resources each request names in its arguments or depends on *)
References ==
    [name \in LogicalNames |->
        CASE name = "igw" -> {"vpc"}
          [] name \in {"public-subnet", "private-subnet"} -> {"vpc"}
          [] name = "nat-eip" -> {"igw"}
          [] name = "nat" -> {"igw", "public-subnet", "nat-eip"}
          [] name = "public-rt" -> {"vpc", "igw"}
          [] name = "private-rt" -> {"vpc", "nat"}
          [] name = "public-rta" -> {"public-rt", "public-subnet"}
          [] name = "private-rta" -> {"private-rt", "private-subnet"}
          [] name = "sg-self-ingress" -> {"sg"}
          [] name = "execution-policy-attachment" -> {"execution-role", "execution-policy"}
          [] OTHER -> {}]

(* C19: every request is issued after the request of each resource it
   references, in the same run: the VPC before the internet gateway, the
   subnets and the route tables; the internet gateway before the elastic IP,
   the NAT gateway and the public route table; the public subnet and the
   elastic IP before the NAT gateway; the NAT gateway before the private
   route table; a route table and its subnet before their association; the
   security group before its self-ingress rule; role and policy before the
   attachment. *)
C19_ReferencedFirst ==
    \A i \in DOMAIN reqs :
        /\ References[reqs[i].name] \subseteq reqs[i].refs
        /\ \A d \in reqs[i].refs :
              \E j \in 1..(i - 1) : reqs[j].name = d /\ reqs[j].run = reqs[i].run

C19_Witness ==
    /\ pc = "done"
    /\ {"nat", "private-rta", "sg-self-ingress", "execution-policy-attachment"}
          \subseteq ReqNames
    /\ \E i \in DOMAIN reqs : reqs[i].name = "nat" /\ Cardinality(reqs[i].refs) = 3

(* The block inner lies inside the block outer: its prefix is at least as
   long and the two agree on the bits of outer's prefix *)
CidrContains(outer, inner) ==
    LET n == outer[5] \div 8
        r == outer[5] % 8
    IN  /\ inner[5] >= outer[5]
        /\ \A k \in 1..n : inner[k] = outer[k]
        /\ r > 0 => (inner[n + 1] \div (2 ^ (8 - r))) = (outer[n + 1] \div (2 ^ (8 - r)))

(* C20: the CIDR block of every subnet the translator requests lies inside
   the CIDR block of the VPC it requests them for. *)
C20_SubnetsInsideVPC ==
    \A i \in DOMAIN reqs :
        reqs[i].name \in {"public-subnet", "private-subnet"} =>
            CidrContains(Deref(stack.Config.VPC).VPCCidr, reqs[i].cidr)

(* The suffix of the Name tag of each tagged resource *)
NameSuffix ==
    [name \in {"vpc", "igw", "public-subnet", "private-subnet", "nat-eip", "nat",
               "public-rt", "private-rt", "sg", "execution-role", "log-group"} |->
        CASE name = "public-subnet" -> "-public"
          [] name = "private-subnet" -> "-private"
          [] name = "log-group" -> "-logs"
          [] OTHER -> "-" \o name]

(* The keys a step of the builder added to its tags or gave another value *)
TagsWritten ==
    {k \in DOMAIN b'.Tags : k \notin DOMAIN b.Tags \/ b'.Tags[k] # b.Tags[k]}

(* C21: a WithTag or WithTags call drops no tag and writes only the keys and
   values it was given.  Every tagged request of a translation carries
   exactly the builder's tags, ManagedBy and Name: each builder tag with the
   builder's value, except that ManagedBy is "agentkit-pulumi" and Name is
   the stack name with the resource's suffix whatever the builder holds for
   them; and the translator's own tag map stays the builder's tags with
   ManagedBy from one request to the next. *)
C21_Tags ==
    /\ [](Accepted =>
            LET user == b.Tags
                base == [k \in (DOMAIN user) \cup {"ManagedBy"} |->
                            IF k = "ManagedBy" THEN PulumiString("agentkit-pulumi")
                            ELSE PulumiString(user[k])]
            IN  /\ tags = base
                /\ \A i \in DOMAIN reqs :
                      /\ reqs[i].tagged <=> reqs[i].name \in DOMAIN NameSuffix
                      /\ reqs[i].tagged =>
                            /\ DOMAIN reqs[i].tags = (DOMAIN user) \cup {"ManagedBy", "Name"}
                            /\ \A k \in (DOMAIN user) \ {"ManagedBy", "Name"} :
                                  reqs[i].tags[k] = PulumiString(user[k])
                            /\ reqs[i].tags["ManagedBy"] = PulumiString("agentkit-pulumi")
                            /\ reqs[i].tags["Name"] =
                                  Sprintf(b.StackName, NameSuffix[reqs[i].name]))
    /\ [][b'.Tags # b.Tags =>
             /\ DOMAIN b.Tags \subseteq DOMAIN b'.Tags
             /\ \/ \E kv \in TagInputs :
                      TagsWritten = {kv[1]} /\ b'.Tags[kv[1]] = kv[2]
                \/ \E t \in TagsInputs :
                      /\ TagsWritten \subseteq DOMAIN t
                      /\ \A k \in DOMAIN t : b'.Tags[k] = t[k]]_vars

C21_Witness ==
    /\ pc = "done"
    /\ DOMAIN b.Tags = {"Environment", "Team", "Name"}
    /\ b.Tags["Environment"] = "ai"
    /\ b.Tags["Name"] = "user"
    /\ \E i \in DOMAIN reqs :
          /\ reqs[i].name = "log-group"
          /\ reqs[i].tags["Name"] = Sprintf("s1", "-logs")
          /\ reqs[i].tags["Environment"] = PulumiString("ai")

====
